---- MODULE Spec2Model ----
(***************************************************************************)
(* Model of rosalind/experiment_runners/experiment_utils.py: the worker    *)
(* supervisor train_model, the facade entry points                         *)
(* run_new_single_experiment_with_monitoring,                              *)
(* continue_experiement_with_monitoring and continue_experiment_group, the *)
(* log directories with their checkpoints, the client pool and the         *)
(* experiment store they act on; and of the mission start of               *)
(* common/malmo/malmo_env.py (MalmoEnvironment.init and reset).            *)
(*                                                                         *)
(* Every facade call and every worker process is a small program counter   *)
(* machine; one action is one statement (or one database call) of the      *)
(* source, so that calls and workers interleave between database calls.    *)
(* rosalind.db.queries is not part of the sources: its operations are      *)
(* modelled from the persistence contract of the specification.            *)
(*                                                                         *)
(* Spec is the orchestrator with single-experiment calls and its workers;  *)
(* SpecFacade is the facade with every argument it accepts (groups, any    *)
(* step count); SpecRelease, SpecCheckpoint and SpecReset apply the        *)
(* release of a client, the checkpoint and the mission start to inputs     *)
(* drawn from bounded sets.                                                *)
(***************************************************************************)
EXTENDS Integers, Sequences, FiniteSets, TLC

(* ---------------------------- bounds ----------------------------------- *)
\* facade calls / direct supervisor invocations
MaxCalls == 2
\* experiment ids that uuid4 can hand out
MaxExps == 2
\* pre-provisioned client pool entries
NumClients == 1
\* largest num_envs a direct invocation of train_model is given
MaxEnvs == 2

Calls == 1..MaxCalls
\* worker processes (pids): one for every member a call can resume
Runs == 1..(MaxCalls * MaxExps)
Exps == 1..MaxExps
\* group ids a caller passes (a group id that uuid4 makes is negative)
GroupIds == {1}
Clients == 1..NumClients
Users == {"alice", "bob"}
\* values of model_params['total_timesteps'] / of the total_timesteps argument
StepChoices == {1}
\* values of the total_timesteps argument of a resume (an int, unchecked)
ExtraSteps == {0 - 1, 1}
\* regular files at the top level of a log directory
FileNames == {"train.log", "model.pkl"}
\* versions of the content of a file; 0 stands for "no such file"
MaxContent == 2
Contents == 0..MaxContent
\* checkpoints taken of one log directory when the checkpoint is looked at
\* on its own
MaxCheckpoints == 2
\* largest max_retries that init() is given
MaxRetries == 2
\* calls of reset() on the environment object
MaxResets == 2
MaxSteps == 2
MaxFrame == 2
MaxCommands == 2

(* --------------------------- constants --------------------------------- *)
\* _MODELS: the trainer registry
MODELS == {"a2c", "deepq"}
\* model kinds the callers of the model name; "ppo" is not registered
ModelKinds == {"a2c", "ppo"}

\* client_address = None
None == 0
\* client_address before its first assignment (the for loop did not run)
Unbound == 0 - 1
\* Experiments.pid of a record whose process handle was never recorded
NoPid == 0

VARIABLES
    experiments,    \* Experiment Store: id -> record
    prev_status,    \* id -> the status the record had before its last status write
    pool,           \* ClientPool: address -> [status, current_experiment]
    handed,         \* address -> workers handed the entry since its last release
    log_dirs,       \* id -> the log directory build_log_dir gives the id
    checkpoints,    \* id -> number of checkpoints taken of the log directory
    notifications,  \* messages delivered by bot.send_message
    runs,           \* worker processes (train_model), by pid
    calls,          \* facade calls, by call number
    env             \* one MalmoEnvironment object

vars == <<experiments, prev_status, pool, handed, log_dirs, checkpoints,
          notifications, runs, calls, env>>

(* ----------------------- Experiment Store ------------------------------ *)
NoExperiment ==
    [exists |-> FALSE, id |-> 0, status |-> "NONE", end_date |-> FALSE,
     owner |-> "nobody", total_timesteps |-> 0, pid |-> NoPid,
     model |-> "none", load_path |-> FALSE, group_id |-> None, seq |-> 0]

\* create_experiment: a new record, in PENDING; seq is its place in the
\* insertion order of its group
create_experiment(exps, experiment_id, group_id, model, owner, total_timesteps) ==
    [exps EXCEPT ![experiment_id] =
        [exists |-> TRUE, id |-> experiment_id, status |-> "PENDING",
         end_date |-> FALSE, owner |-> owner,
         total_timesteps |-> total_timesteps, pid |-> NoPid,
         model |-> model, load_path |-> FALSE, group_id |-> group_id,
         seq |-> Cardinality({e \in DOMAIN exps :
                                 /\ exps[e].exists
                                 /\ exps[e].group_id = group_id}) + 1]]

\* get_experiments_by_group_id: the records of the group, in insertion order
RECURSIVE InInsertionOrder(_, _)
InInsertionOrder(exps, ids) ==
    IF ids = {} THEN <<>>
    ELSE LET first == CHOOSE e \in ids :
                          \A f \in ids : exps[e].seq <= exps[f].seq
         IN <<exps[first]>> \o InInsertionOrder(exps, ids \ {first})

get_experiments_by_group_id(exps, group_id) ==
    InInsertionOrder(exps, {e \in DOMAIN exps :
                              exps[e].exists /\ exps[e].group_id = group_id})

\* update_experiment: partial update of one record
update_experiment(exps, experiment_id, fields) ==
    [exps EXCEPT ![experiment_id] = fields @@ @]

\* the status history that a status write leaves behind
status_written(prev, exps, experiment_id) ==
    [prev EXCEPT ![experiment_id] = exps[experiment_id].status]

\* a record persisted by an earlier deployment whose registry still had "ppo"
LegacyExperiment ==
    [exists |-> TRUE, id |-> 1, status |-> "COMPLETED", end_date |-> TRUE,
     owner |-> "alice", total_timesteps |-> 1, pid |-> NoPid,
     model |-> "ppo", load_path |-> FALSE, group_id |-> 1, seq |-> 1]

(* -------------------------- Client Pool -------------------------------- *)
AvailableClients(p) == {c \in Clients : p[c].status = "AVALIABLE"}

\* find_and_reserve_client: one atomic conditional update; the outcomes are
\* <<pool', address>> pairs, address = None when no entry is AVALIABLE
find_and_reserve_client(p, experiment_id) ==
    IF AvailableClients(p) = {}
    THEN {<<p, None>>}
    ELSE {<<[p EXCEPT ![c] = [status |-> "RESERVED",
                              current_experiment |-> experiment_id]], c>> :
            c \in AvailableClients(p)}

\* update_client: partial update of one pool entry
update_client(p, client_address, fields) ==
    [p EXCEPT ![client_address] = fields @@ @]

(* --------------------------- log directories --------------------------- *)
\* a log directory that was never made
NoDir ==
    [exists |-> FALSE, files |-> [n \in FileNames |-> 0],
     checkpoint_exists |-> FALSE, checkpoint |-> [n \in FileNames |-> 0]]

\* the log directory a finished run left behind: its log and its model
LegacyDir == [NoDir EXCEPT !.exists = TRUE, !.files = [n \in FileNames |-> 1]]

\* build_log_dir: os.mkdir(log_dir) if not os.path.isdir(log_dir); the path
\* is a function of the experiment id, so the id stands for the path
build_log_dir(dirs, experiment_id) ==
    [dirs EXCEPT ![experiment_id].exists = TRUE]

\* os.listdir(src): the regular files and the checkpoint subdirectory
listdir(dir) ==
    {n \in FileNames : dir.files[n] # 0}
        \cup (IF dir.checkpoint_exists THEN {"checkpoint"} ELSE {})

\* os.path.isdir(os.path.join(src, item))
isdir(dir, item) == item = "checkpoint" /\ dir.checkpoint_exists

\* copy_files(log_dir, checkpoint_dir): shutil.copy2 of every item that is
\* not a directory
copy_files(dir) ==
    [dir EXCEPT !.checkpoint =
        [n \in FileNames |->
            IF n \in listdir(dir) /\ ~isdir(dir, n) THEN dir.files[n]
            ELSE @[n]]]

\* os.mkdir(checkpoint_dir)
mkdir_checkpoint(dir) ==
    IF dir.checkpoint_exists
    THEN [dir |-> dir, exc |-> "FileExistsError"]
    ELSE [dir |-> [dir EXCEPT !.checkpoint_exists = TRUE], exc |-> "none"]

\* variant of the checkpoint that makes its directory unconditionally
save_experiment_checkpoint_mkdir_always(dir) ==
    LET made == mkdir_checkpoint(dir)
    IN IF made.exc # "none" THEN made
       ELSE [dir |-> copy_files(made.dir), exc |-> "none"]

\* save_experiment_checkpoint: make log_dir/checkpoint unless it is a
\* directory already, then copy the top-level files into it
save_experiment_checkpoint(dir) ==
    LET made == IF ~isdir(dir, "checkpoint") THEN mkdir_checkpoint(dir)
                ELSE [dir |-> dir, exc |-> "none"]
    IN IF made.exc # "none" THEN made
       ELSE [dir |-> copy_files(made.dir), exc |-> "none"]

\* logging.FileHandler(os.path.join(log_dir, 'train.log')) of a worker
open_train_log(dirs, log_dir) ==
    [dirs EXCEPT ![log_dir].files["train.log"] = 1]

(* -------------------------- MalmoEnvironment --------------------------- *)
\* self._reset_counter
reset_counter == 20

\* MalmoEnvironment.__init__, and the defaults of what init() sets later.
\* attempts, failed, sleeps and forced count the startMission calls, the
\* RuntimeErrors, the time.sleep(retry_sleep) calls and the forceWorldReset
\* calls of the present reset.  running is is_mission_running of the agent
\* host; sent is the number of sendCommand calls of the last step, taken the
\* number of _take_action calls since the last reset, frame the last video
\* frame and done the flag the last step returned.
NewEnvironment ==
    [pc |-> "constructed", max_retries |-> 0, client_pool |-> FALSE,
     forceWorldReset |-> FALSE, num_actions |-> 0, num_resets |-> 0,
     retry |-> 0, attempts |-> 0, failed |-> 0, sleeps |-> 0, forced |-> 0,
     with_pool |-> FALSE, exc |-> "none", parse_world_state |-> FALSE,
     replay_buffer |-> <<>>, running |-> FALSE, sent |-> 0, taken |-> 0,
     frame |-> 0, done |-> FALSE, stepped |-> FALSE]

\* self.replay_buffer_size, the number of frames stacked into an observation
replay_buffer_size == 2

\* the video frames of the agent host; 0 is the all-zero image
Frames == 1..MaxFrame

\* _init_replay_buffer: [np.zeros(shape)] * replay_buffer_size
init_replay_buffer == [i \in 1..replay_buffer_size |-> 0]

\* variant of the buffer update that appends at the back and drops the front
update_replay_buffer_at_back(replay_buffer, observation) ==
    IF replay_buffer = <<>> THEN <<>>
    ELSE Tail(replay_buffer) \o <<observation>>

\* _update_replay_buffer_and_get_observation: replay_buffer.insert(0,
\* observation); replay_buffer.pop(-1); the stacked buffer is returned
update_replay_buffer_and_get_observation(replay_buffer, observation) ==
    SubSeq(<<observation>> \o replay_buffer, 1, Len(replay_buffer))

OrchestratorVars ==
    <<experiments, prev_status, pool, handed, log_dirs, checkpoints,
      notifications, runs, calls>>

\* init(client_pool=..., max_retries=..., forceWorldReset=...): the retry
\* settings are stored, a client pool is built when one is given
init(client_pool, max_retries, forceWorldReset) ==
    /\ env.pc = "constructed"
    /\ env' = [env EXCEPT !.pc = "initialised",
                          !.max_retries = max_retries,
                          !.client_pool = client_pool,
                          !.forceWorldReset = forceWorldReset]
    /\ UNCHANGED OrchestratorVars

\* reset, lines 459-477: num_actions = 0; the mission is loaded; the world
\* reset is forced when asked for or on every _reset_counter-th reset;
\* _num_resets += 1; the retry loop starts with retry = 0
reset(force_reset) ==
    /\ env.pc \in {"initialised", "running", "raised"}
    /\ env.num_resets < MaxResets
    /\ env' = [env EXCEPT !.pc = "start_mission",
                          !.num_actions = 0,
                          !.forced =
                              IF env.forceWorldReset \/ force_reset
                                 \/ env.num_resets % reset_counter = 0
                              THEN 1 ELSE 0,
                          !.num_resets = @ + 1,
                          !.retry = 0, !.attempts = 0, !.failed = 0,
                          !.sleeps = 0, !.with_pool = FALSE,
                          !.exc = "none", !.sent = 0, !.taken = 0,
                          !.done = FALSE, !.stepped = FALSE]
    /\ UNCHANGED OrchestratorVars

\* variant of the attempt that gives up one retry early
reset_start_mission_gives_up_early(started) ==
    /\ env.pc = "start_mission"
    /\ env' = [env EXCEPT
                 !.attempts = @ + 1,
                 !.with_pool = env.client_pool,
                 !.failed = IF started THEN @ ELSE @ + 1,
                 !.exc = IF ~started /\ env.retry + 1 >= env.max_retries
                         THEN "RuntimeError" ELSE "none",
                 !.pc = IF started THEN "wait_begun"
                        ELSE IF env.retry + 1 >= env.max_retries
                             THEN "raised" ELSE "retry_sleep"]
    /\ UNCHANGED OrchestratorVars

\* one pass of `for retry in range(self.max_retries + 1)`, lines 477-489:
\* agent_host.startMission(...), with the client pool when there is one;
\* break when it returns; on RuntimeError raise when retry == max_retries
reset_start_mission(started) ==
    /\ env.pc = "start_mission"
    /\ env' = [env EXCEPT
                 !.attempts = @ + 1,
                 !.with_pool = env.client_pool,
                 !.failed = IF started THEN @ ELSE @ + 1,
                 !.exc = IF ~started /\ env.retry = env.max_retries
                         THEN "RuntimeError" ELSE "none",
                 !.pc = IF started THEN "wait_begun"
                        ELSE IF env.retry = env.max_retries
                             THEN "raised" ELSE "retry_sleep"]
    /\ UNCHANGED OrchestratorVars

\* else branch of the handler, lines 489-492: time.sleep(self.retry_sleep);
\* the loop takes its next retry
reset_retry_sleep ==
    /\ env.pc = "retry_sleep"
    /\ env' = [env EXCEPT !.sleeps = @ + 1, !.retry = @ + 1,
                          !.pc = "start_mission"]
    /\ UNCHANGED OrchestratorVars

\* lines 494-515: the wait loop sees has_mission_begun; the replay buffer is
\* initialised; the first world state is fetched and, unless the world
\* state is parsed, its video frame is pushed into the buffer
reset_mission_begun(frame) ==
    /\ env.pc = "wait_begun"
    /\ env' = [env EXCEPT
                 !.pc = "running", !.running = TRUE, !.frame = frame,
                 !.replay_buffer =
                     IF env.parse_world_state THEN init_replay_buffer
                     ELSE update_replay_buffer_and_get_observation(
                              init_replay_buffer, frame)]
    /\ UNCHANGED OrchestratorVars

\* the mission ends on the side of the agent host (time limit, death, quit)
mission_ends ==
    /\ env.pc = "running" /\ env.running
    /\ env' = [env EXCEPT !.running = FALSE]
    /\ UNCHANGED OrchestratorVars

\* variant of step that counts the action whether or not it was taken
step_counts_every_call(commands, frame, ended) ==
    /\ env.pc = "running" /\ env.num_actions < MaxSteps
    /\ env' = [env EXCEPT
                 !.sent = IF env.running THEN commands ELSE 0,
                 !.taken = IF env.running THEN @ + 1 ELSE @,
                 !.num_actions = @ + 1,
                 !.running = env.running /\ ~ended,
                 !.done = ~(env.running /\ ~ended),
                 !.stepped = TRUE,
                 !.frame = frame,
                 !.replay_buffer =
                     IF env.parse_world_state THEN @
                     ELSE update_replay_buffer_and_get_observation(@, frame)]
    /\ UNCHANGED OrchestratorVars

\* step, lines 411-454: peekWorldState; when the mission is running
\* _take_action sends the commands of the action (one per component of the
\* action space), num_actions += 1 and _get_world_state waits for the next
\* world state, in which the mission may have ended; done = not
\* is_mission_running of the world state at hand; unless the world state is
\* parsed the video frame is pushed into the replay buffer
step(commands, frame, ended) ==
    /\ env.pc = "running" /\ env.num_actions < MaxSteps
    /\ env' = [env EXCEPT
                 !.sent = IF env.running THEN commands ELSE 0,
                 !.taken = IF env.running THEN @ + 1 ELSE @,
                 !.num_actions = IF env.running THEN @ + 1 ELSE @,
                 !.running = env.running /\ ~ended,
                 !.done = ~(env.running /\ ~ended),
                 !.stepped = TRUE,
                 !.frame = frame,
                 !.replay_buffer =
                     IF env.parse_world_state THEN @
                     ELSE update_replay_buffer_and_get_observation(@, frame)]
    /\ UNCHANGED OrchestratorVars

(* ----------------------------- Init ------------------------------------ *)
IdleRun ==
    [pc |-> "idle", experiment |-> NoExperiment, num_envs |-> 0, i |-> 0,
     client_address |-> Unbound, client_pool |-> <<>>, runner |-> "not_called",
     exc |-> "none", sends |-> 0, send_failed |-> FALSE, reserved |-> {},
     waited |-> FALSE, launcher |-> "none", log_dir |-> None, call |-> 0]

IdleCall ==
    [pc |-> "idle", op |-> "none", user |-> "nobody", model |-> "none",
     experiment |-> NoExperiment, total_timesteps |-> 0, exc |-> "none",
     log_dir |-> None, training_process |-> NoPid, checkpointed |-> 0,
     members |-> <<>>, j |-> 0, not_attempted |-> 0]

Init ==
    /\ experiments \in {[e \in Exps |-> NoExperiment],
                        [e \in Exps |-> IF e = 1 THEN LegacyExperiment
                                        ELSE NoExperiment]}
    /\ prev_status = [e \in Exps |->
                        IF experiments[e].exists THEN "RUNNING" ELSE "NONE"]
    /\ pool = [c \in Clients |->
                [status |-> "AVALIABLE", current_experiment |-> None]]
    /\ handed = [c \in Clients |-> {}]
    /\ log_dirs = [e \in Exps |-> IF experiments[e].exists THEN LegacyDir
                                 ELSE NoDir]
    /\ checkpoints = [e \in Exps |-> 0]
    /\ notifications = {}
    /\ runs = [r \in Runs |-> IdleRun]
    /\ calls = [k \in Calls |-> IdleCall]
    /\ env = NewEnvironment


(* ----------------------- Notification Dispatcher ----------------------- *)
\* send_message_to_owner: the recipient is the owner field of the experiment
\* object the sender holds
send_message_to_owner(notes, by, n, experiment, kind, detail) ==
    notes \cup {[by |-> by, n |-> n, to |-> experiment.owner,
                 experiment |-> experiment.id, kind |-> kind,
                 detail |-> detail]}

(* ------------------------ train_model (worker) ------------------------- *)
\* Process(target=train_model, args=(bot, experiment, ...)).start(): the
\* worker gets its own copy of the caller's experiment object.  Lines 86-103:
\* logger, connection and monitor set-up, client_pool = [], and the head of
\* `for i in range(num_envs)`, which sets client_address = None.
spawn(experiment, log_dir, num_envs, launcher, call) ==
    [IdleRun EXCEPT !.experiment = experiment, !.num_envs = num_envs,
                    !.launcher = launcher, !.log_dir = log_dir,
                    !.call = call,
                    !.client_address = IF 0 < num_envs THEN None ELSE Unbound,
                    !.pc = IF 0 < num_envs THEN "reserve" ELSE "try"]

\* variant of the loop body that leaves the loop after its first pass
train_model_reserve_once(r) ==
    /\ runs[r].pc = "reserve"
    /\ \E out \in find_and_reserve_client(pool, runs[r].experiment.id) :
         /\ pool' = out[1]
         /\ runs' = [runs EXCEPT ![r] =
                       [@ EXCEPT !.client_address = out[2],
                                 !.reserved = IF out[2] = None THEN @
                                              ELSE @ \cup {out[2]},
                                 !.waited = IF out[2] = None THEN TRUE ELSE @,
                                 !.pc = "parse"]]
         /\ handed' = IF out[2] = None THEN handed
                      ELSE [handed EXCEPT ![out[2]] = @ \cup {r}]
    /\ UNCHANGED <<experiments, prev_status, log_dirs, checkpoints,
                   notifications, calls>>
    /\ UNCHANGED env

\* variant of the loop body that reserves without naming the experiment
train_model_reserve_no_holder(r) ==
    /\ runs[r].pc = "reserve"
    /\ \E out \in find_and_reserve_client(pool, None) :
         /\ pool' = out[1]
         /\ runs' = [runs EXCEPT ![r] =
                       [@ EXCEPT !.client_address = out[2],
                                 !.reserved = IF out[2] = None THEN @
                                              ELSE @ \cup {out[2]},
                                 !.waited = IF out[2] = None THEN TRUE ELSE @,
                                 !.pc = IF out[2] = None
                                        THEN "reserve" ELSE "parse"]]
         /\ handed' = IF out[2] = None THEN handed
                      ELSE [handed EXCEPT ![out[2]] = @ \cup {r}]
    /\ UNCHANGED <<experiments, prev_status, log_dirs, checkpoints,
                   notifications, calls>>
    /\ UNCHANGED env

\* variant of the loop body that gives up after a pass without an address
train_model_reserve_times_out(r) ==
    /\ runs[r].pc = "reserve"
    /\ \E out \in find_and_reserve_client(pool, runs[r].experiment.id) :
         /\ pool' = out[1]
         /\ runs' = [runs EXCEPT ![r] =
                       [@ EXCEPT !.client_address = out[2],
                                 !.reserved = IF out[2] = None THEN @
                                              ELSE @ \cup {out[2]},
                                 !.waited = IF out[2] = None THEN TRUE ELSE @,
                                 !.exc = IF out[2] = None
                                         THEN "TimeoutError" ELSE @,
                                 !.pc = IF out[2] = None
                                        THEN "exit" ELSE "parse"]]
         /\ handed' = IF out[2] = None THEN handed
                      ELSE [handed EXCEPT ![out[2]] = @ \cup {r}]
    /\ UNCHANGED <<experiments, prev_status, log_dirs, checkpoints,
                   notifications, calls>>
    /\ UNCHANGED env

\* while not client_address:
\*     client_address = find_and_reserve_client(...); time.sleep(10)
\* One pass of the loop body: without an address the worker has waited and
\* polls again.
train_model_reserve(r) ==
    /\ runs[r].pc = "reserve"
    /\ \E out \in find_and_reserve_client(pool, runs[r].experiment.id) :
         /\ pool' = out[1]
         /\ runs' = [runs EXCEPT ![r] =
                       [@ EXCEPT !.client_address = out[2],
                                 !.reserved = IF out[2] = None THEN @
                                              ELSE @ \cup {out[2]},
                                 !.waited = IF out[2] = None THEN TRUE ELSE @,
                                 !.pc = IF out[2] = None
                                        THEN "reserve" ELSE "parse"]]
         /\ handed' = IF out[2] = None THEN handed
                      ELSE [handed EXCEPT ![out[2]] = @ \cup {r}]
    /\ UNCHANGED <<experiments, prev_status, log_dirs, checkpoints,
                   notifications, calls>>
    /\ UNCHANGED env

\* client = client_address.split(":")
\* client = (client_pool[0], int(client_pool[1]))
\* The pair is read from the list client_pool, not from the split address:
\* with fewer than two entries the subscript raises IndexError, and with two
\* or more int() is applied to a tuple and raises TypeError.  The statement
\* is outside the try statement, so the exception leaves train_model.
train_model_parse(r) ==
    /\ runs[r].pc = "parse"
    /\ runs' = [runs EXCEPT ![r] =
                  [@ EXCEPT !.exc = IF Len(runs[r].client_pool) < 2
                                    THEN "IndexError" ELSE "TypeError",
                            !.pc = "exit"]]
    /\ UNCHANGED <<experiments, prev_status, pool, handed, log_dirs,
                   checkpoints, notifications, calls>>
    /\ UNCHANGED env

\* variant of the try block that calls the trainer without the status write
train_model_try_no_status(r) ==
    /\ runs[r].pc = "try"
    /\ runs' = [runs EXCEPT ![r].pc = "runner"]
    /\ UNCHANGED <<experiments, prev_status, pool, handed, log_dirs,
                   checkpoints, notifications, calls>>
    /\ UNCHANGED env

\* try: update_experiment(status = RUNNING); experiment_monitor.start()
train_model_try(r) ==
    /\ runs[r].pc = "try"
    /\ experiments' = update_experiment(experiments, runs[r].experiment.id,
                                        [status |-> "RUNNING"])
    /\ prev_status' = status_written(prev_status, experiments,
                                     runs[r].experiment.id)
    /\ runs' = [runs EXCEPT ![r].pc = "runner"]
    /\ UNCHANGED <<pool, handed, log_dirs, checkpoints, notifications, calls>>
    /\ UNCHANGED env

\* model_runner(log_dir, env_id, client_pool, 10, logger, **model_params):
\* the training entry point returns or raises
train_model_runner(r) ==
    /\ runs[r].pc = "runner"
    /\ \E outcome \in {"returned", "raised"} :
         runs' = [runs EXCEPT ![r] =
                    [@ EXCEPT !.runner = outcome,
                              !.exc = IF outcome = "raised"
                                      THEN "RuntimeError" ELSE "none",
                              !.pc = IF outcome = "raised"
                                     THEN "except" ELSE "else"]]
    /\ UNCHANGED <<experiments, prev_status, pool, handed, log_dirs,
                   checkpoints, notifications, calls>>
    /\ UNCHANGED env

\* except: monitor stop/join; update_experiment(status = FAILED, end_date)
train_model_except(r) ==
    /\ runs[r].pc = "except"
    /\ experiments' = update_experiment(experiments, runs[r].experiment.id,
                                        [status |-> "FAILED",
                                         end_date |-> TRUE])
    /\ prev_status' = status_written(prev_status, experiments,
                                     runs[r].experiment.id)
    /\ runs' = [runs EXCEPT ![r].pc = "except_send"]
    /\ UNCHANGED <<pool, handed, log_dirs, checkpoints, notifications, calls>>
    /\ UNCHANGED env

\* tb = traceback.format_exc(); send_message_to_owner(...failed...); raise e
\* When the send raises, its exception replaces e.
train_model_except_send(r) ==
    /\ runs[r].pc = "except_send"
    /\ \E delivered \in BOOLEAN :
         /\ notifications' =
              IF delivered
              THEN send_message_to_owner(notifications, "train_model", r,
                                         runs[r].experiment, "failed",
                                         runs[r].exc)
              ELSE notifications
         /\ runs' = [runs EXCEPT ![r] =
                       [@ EXCEPT !.sends = @ + 1,
                                 !.send_failed = ~delivered,
                                 !.exc = IF delivered THEN @ ELSE "SendError",
                                 !.pc = "finally"]]
    /\ UNCHANGED <<experiments, prev_status, pool, handed, log_dirs,
                   checkpoints, calls>>
    /\ UNCHANGED env

\* else: update_experiment(status = COMPLETED, end_date)
train_model_else(r) ==
    /\ runs[r].pc = "else"
    /\ experiments' = update_experiment(experiments, runs[r].experiment.id,
                                        [status |-> "COMPLETED",
                                         end_date |-> TRUE])
    /\ prev_status' = status_written(prev_status, experiments,
                                     runs[r].experiment.id)
    /\ runs' = [runs EXCEPT ![r].pc = "else_send"]
    /\ UNCHANGED <<pool, handed, log_dirs, checkpoints, notifications, calls>>
    /\ UNCHANGED env

\* variant of the success branch that sends nothing
train_model_else_send_skipped(r) ==
    /\ runs[r].pc = "else_send"
    /\ runs' = [runs EXCEPT ![r].pc = "finally"]
    /\ UNCHANGED <<experiments, prev_status, pool, handed, log_dirs,
                   checkpoints, notifications, calls>>
    /\ UNCHANGED env

\* variant of the success branch that sends again after a failed send
train_model_else_send_retry(r) ==
    /\ runs[r].pc = "else_send"
    /\ \E delivered \in BOOLEAN :
         /\ notifications' =
              IF delivered
              THEN send_message_to_owner(notifications, "train_model", r,
                                         runs[r].experiment, "completed",
                                         "none")
              ELSE notifications
         /\ runs' = [runs EXCEPT ![r] =
                       [@ EXCEPT !.sends = IF @ < 2 THEN @ + 1 ELSE @,
                                 !.send_failed = ~delivered,
                                 !.pc = IF delivered THEN "finally"
                                        ELSE "else_send"]]
    /\ UNCHANGED <<experiments, prev_status, pool, handed, log_dirs,
                   checkpoints, calls>>
    /\ UNCHANGED env

\* send_message_to_owner(...completed...)
train_model_else_send(r) ==
    /\ runs[r].pc = "else_send"
    /\ \E delivered \in BOOLEAN :
         /\ notifications' =
              IF delivered
              THEN send_message_to_owner(notifications, "train_model", r,
                                         runs[r].experiment, "completed",
                                         "none")
              ELSE notifications
         /\ runs' = [runs EXCEPT ![r] =
                       [@ EXCEPT !.sends = @ + 1,
                                 !.send_failed = ~delivered,
                                 !.exc = IF delivered THEN @ ELSE "SendError",
                                 !.pc = "finally"]]
    /\ UNCHANGED <<experiments, prev_status, pool, handed, log_dirs,
                   checkpoints, calls>>
    /\ UNCHANGED env

\* variant of the finalizer whose release fails on an entry that is not
\* RESERVED
train_model_finally_reserved_only(r) ==
    /\ runs[r].pc = "finally"
    /\ IF runs[r].client_address \in Clients
          /\ pool[runs[r].client_address].status = "RESERVED"
       THEN /\ pool' = update_client(pool, runs[r].client_address,
                                     [status |-> "AVALIABLE",
                                      current_experiment |-> None])
            /\ handed' = [handed EXCEPT ![runs[r].client_address] = {}]
            /\ runs' = [runs EXCEPT ![r].pc = "exit"]
       ELSE /\ runs' = [runs EXCEPT ![r] =
                          [@ EXCEPT !.exc = "UnboundLocalError",
                                    !.pc = "exit"]]
            /\ UNCHANGED <<pool, handed>>
    /\ UNCHANGED <<experiments, prev_status, log_dirs, checkpoints,
                   notifications, calls>>
    /\ UNCHANGED env

\* finally: monitor stop/join; update_client(client_address, AVALIABLE, None)
\* Only the address the loop assigned last is released; when the loop did
\* not run, reading client_address raises UnboundLocalError.
train_model_finally(r) ==
    /\ runs[r].pc = "finally"
    /\ IF runs[r].client_address \in Clients
       THEN /\ pool' = update_client(pool, runs[r].client_address,
                                     [status |-> "AVALIABLE",
                                      current_experiment |-> None])
            /\ handed' = [handed EXCEPT ![runs[r].client_address] = {}]
            /\ runs' = [runs EXCEPT ![r].pc = "exit"]
       ELSE /\ runs' = [runs EXCEPT ![r] =
                          [@ EXCEPT !.exc = "UnboundLocalError",
                                    !.pc = "exit"]]
            /\ UNCHANGED <<pool, handed>>
    /\ UNCHANGED <<experiments, prev_status, log_dirs, checkpoints,
                   notifications, calls>>
    /\ UNCHANGED env

train_model(r) ==
    \/ train_model_reserve(r)
    \/ train_model_parse(r)
    \/ train_model_try(r)
    \/ train_model_runner(r)
    \/ train_model_except(r)
    \/ train_model_except_send(r)
    \/ train_model_else(r)
    \/ train_model_else_send(r)
    \/ train_model_finally(r)


(* ------------------------------ facade --------------------------------- *)
\* call numbers are handed out in order
NextCall(k) ==
    /\ calls[k].pc = "idle"
    /\ \A j \in Calls : j < k => calls[j].pc # "idle"

\* ids that uuid4 has not produced yet
FreshIds == {e \in Exps : ~log_dirs[e].exists /\ ~experiments[e].exists}

\* the pid of the process that call k starts for the j-th experiment it
\* handles (j = 0 when the call handles one experiment only)
Pid(k, j) == (k - 1) * MaxExps + (IF j = 0 THEN 1 ELSE j)

\* a call that has returned or raised keeps its outcome only: its operation,
\* the id of its last experiment, its exception and the number of group
\* members its loop did not come to
Returned(call, exc) ==
    [IdleCall EXCEPT !.op = call.op, !.experiment.id = call.experiment.id,
                     !.not_attempted = Len(call.members) - call.j,
                     !.exc = exc, !.pc = "done"]

\* the group id of the new record: the caller's, or a new uuid4
GroupOf(group_id, experiment_id) ==
    IF group_id = None THEN 0 - experiment_id ELSE group_id

\* run_new_single_experiment_with_monitoring, lines 174-184:
\* model_runner = _MODELS.get(model); raise KeyError when there is none;
\* experiment_id = uuid.uuid4(); group_id = uuid.uuid4() if not group_id;
\* log_dir = build_log_dir(experiment_id)
run_new_single_experiment_with_monitoring(k, user, model, total_timesteps, group_id) ==
    /\ NextCall(k)
    /\ model \in MODELS => FreshIds # {}
    /\ IF model \in MODELS
       THEN LET experiment_id == CHOOSE e \in FreshIds :
                                     \A f \in FreshIds : e <= f
            IN /\ log_dirs' = build_log_dir(log_dirs, experiment_id)
               /\ calls' = [calls EXCEPT ![k] =
                     [IdleCall EXCEPT !.op = "run_new", !.user = user,
                                      !.model = model,
                                      !.total_timesteps = total_timesteps,
                                      !.experiment.id = experiment_id,
                                      !.experiment.group_id =
                                          GroupOf(group_id, experiment_id),
                                      !.log_dir = experiment_id,
                                      !.pc = "create_experiment"]]
       ELSE /\ calls' = [calls EXCEPT ![k] =
                     Returned([IdleCall EXCEPT !.op = "run_new"], "KeyError")]
            /\ UNCHANGED log_dirs
    /\ UNCHANGED <<experiments, prev_status, pool, handed, checkpoints,
                   notifications, runs>>
    /\ UNCHANGED env

\* create_experiment(...); experiment = get_experiment(...)
run_new_create_experiment(k) ==
    /\ calls[k].pc = "create_experiment"
    /\ experiments' = create_experiment(experiments, calls[k].experiment.id,
                                        calls[k].experiment.group_id,
                                        calls[k].model, calls[k].user,
                                        calls[k].total_timesteps)
    /\ calls' = [calls EXCEPT ![k] =
                   [@ EXCEPT !.experiment =
                                experiments'[calls[k].experiment.id],
                             !.pc = "start_process"]]
    /\ UNCHANGED <<prev_status, pool, handed, log_dirs, checkpoints,
                   notifications, runs>>
    /\ UNCHANGED env

\* the caller of continue_experiement_with_monitoring holds an Experiments
\* object it read from the store
get_experiment(k, user, experiment_id, total_timesteps) ==
    /\ NextCall(k)
    /\ experiments[experiment_id].exists
    /\ calls' = [calls EXCEPT ![k] =
                   [IdleCall EXCEPT !.op = "continue", !.user = user,
                                    !.experiment = experiments[experiment_id],
                                    !.model = experiments[experiment_id].model,
                                    !.total_timesteps = total_timesteps,
                                    !.pc = "continue"]]
    /\ UNCHANGED <<experiments, prev_status, pool, handed, log_dirs,
                   checkpoints, notifications, runs>>
    /\ UNCHANGED env

\* continue_experiment_group, lines 293-295: experiments =
\* get_experiments_by_group_id(...); the for loop takes the first member
continue_experiment_group(k, user, group_id, total_timesteps) ==
    /\ NextCall(k)
    /\ LET members == get_experiments_by_group_id(experiments, group_id)
       IN calls' = [calls EXCEPT ![k] =
            IF members = <<>>
            THEN Returned([IdleCall EXCEPT !.op = "continue_group"], "none")
            ELSE [IdleCall EXCEPT !.op = "continue_group", !.user = user,
                                  !.members = members, !.j = 1,
                                  !.experiment = members[1],
                                  !.model = members[1].model,
                                  !.total_timesteps = total_timesteps,
                                  !.pc = "continue"]]
    /\ UNCHANGED <<experiments, prev_status, pool, handed, log_dirs,
                   checkpoints, notifications, runs>>
    /\ UNCHANGED env

\* `return experiment` of continue_experiement_with_monitoring: the call is
\* over, or the loop of continue_experiment_group takes its next member
MemberReturned(call) ==
    IF call.op = "continue_group" /\ call.j < Len(call.members)
    THEN [call EXCEPT !.j = @ + 1,
                      !.experiment = call.members[call.j + 1],
                      !.model = call.members[call.j + 1].model,
                      !.log_dir = None, !.training_process = NoPid,
                      !.checkpointed = 0, !.pc = "continue"]
    ELSE Returned(call, "none")

\* variant of the resume that takes the checkpoint before it looks up the
\* trainer
continue_checkpoint_first(k) ==
    /\ calls[k].pc = "continue"
    /\ log_dirs' = [build_log_dir(log_dirs, calls[k].experiment.id)
                      EXCEPT ![calls[k].experiment.id] =
                                save_experiment_checkpoint(@).dir]
    /\ checkpoints' = [checkpoints EXCEPT ![calls[k].experiment.id] = @ + 1]
    /\ calls' = [calls EXCEPT ![k] =
                   IF @.experiment.model \in MODELS
                   THEN [@ EXCEPT !.pc = "update_experiment",
                                  !.log_dir = calls[k].experiment.id,
                                  !.checkpointed = @ + 1]
                   ELSE Returned(@, "KeyError")]
    /\ UNCHANGED <<experiments, prev_status, pool, handed, notifications,
                   runs>>
    /\ UNCHANGED env

\* variant of the resume that goes on without a checkpoint
continue_without_checkpoint(k) ==
    /\ calls[k].pc = "continue"
    /\ IF calls[k].experiment.model \in MODELS
       THEN /\ log_dirs' = build_log_dir(log_dirs, calls[k].experiment.id)
            /\ calls' = [calls EXCEPT ![k] =
                           [@ EXCEPT !.pc = "update_experiment",
                                     !.log_dir = calls[k].experiment.id]]
       ELSE /\ calls' = [calls EXCEPT ![k] = Returned(@, "KeyError")]
            /\ UNCHANGED log_dirs
    /\ UNCHANGED <<experiments, prev_status, pool, handed, checkpoints,
                   notifications, runs>>
    /\ UNCHANGED env

\* continue_experiement_with_monitoring, lines 235-247:
\* model_runner = _MODELS.get(experiment.model); raise KeyError when none;
\* log_dir = build_log_dir(experiment.id); save_experiment_checkpoint(log_dir);
\* model_params["load_path"] and ["total_timesteps"] are set on the object
continue_experiement_with_monitoring(k) ==
    /\ calls[k].pc = "continue"
    /\ IF calls[k].experiment.model \in MODELS
       THEN LET log_dir == calls[k].experiment.id
                saved == save_experiment_checkpoint(
                             build_log_dir(log_dirs, log_dir)[log_dir])
            IN /\ log_dirs' = [log_dirs EXCEPT ![log_dir] = saved.dir]
               /\ checkpoints' = [checkpoints EXCEPT ![log_dir] = @ + 1]
               /\ calls' = [calls EXCEPT ![k] =
                    IF saved.exc = "none"
                    THEN [@ EXCEPT !.pc = "update_experiment",
                                   !.log_dir = log_dir,
                                   !.checkpointed = @ + 1]
                    ELSE Returned(@, saved.exc)]
       ELSE /\ calls' = [calls EXCEPT ![k] = Returned(@, "KeyError")]
            /\ UNCHANGED <<log_dirs, checkpoints>>
    /\ UNCHANGED <<experiments, prev_status, pool, handed, notifications,
                   runs>>
    /\ UNCHANGED env

\* variant of the record update that stores the extra steps as the total
continue_update_experiment_overwrites(k) ==
    /\ calls[k].pc = "update_experiment"
    /\ experiments' =
         update_experiment(experiments, calls[k].experiment.id,
                           [total_timesteps |-> calls[k].total_timesteps,
                            status |-> "PENDING",
                            load_path |-> TRUE,
                            owner |-> calls[k].user])
    /\ prev_status' = status_written(prev_status, experiments,
                                     calls[k].experiment.id)
    /\ calls' = [calls EXCEPT ![k].pc = "start_process"]
    /\ UNCHANGED <<pool, handed, log_dirs, checkpoints, notifications, runs>>
    /\ UNCHANGED env

\* update_experiment(total_timesteps = experiment.total_timesteps +
\* total_timesteps, status = PENDING, model_params, owner = user.id)
continue_update_experiment(k) ==
    /\ calls[k].pc = "update_experiment"
    /\ experiments' =
         update_experiment(experiments, calls[k].experiment.id,
                           [total_timesteps |->
                                calls[k].experiment.total_timesteps
                                + calls[k].total_timesteps,
                            status |-> "PENDING",
                            load_path |-> TRUE,
                            owner |-> calls[k].user])
    /\ prev_status' = status_written(prev_status, experiments,
                                     calls[k].experiment.id)
    /\ calls' = [calls EXCEPT ![k].pc = "start_process"]
    /\ UNCHANGED <<pool, handed, log_dirs, checkpoints, notifications, runs>>
    /\ UNCHANGED env

\* try: training_process = Process(target=train_model, args=(bot,
\* experiment, log_dir, ...)); training_process.start()   (num_envs keeps its
\* default)
start_process(k) ==
    /\ calls[k].pc = "start_process"
    /\ \E started \in BOOLEAN :
         IF started
         THEN LET pid == Pid(k, calls[k].j)
              IN /\ runs' = [runs EXCEPT ![pid] =
                               spawn(calls[k].experiment, calls[k].log_dir, 1,
                                     calls[k].op, k)]
                 /\ log_dirs' = open_train_log(log_dirs, calls[k].log_dir)
                 /\ calls' = [calls EXCEPT ![k] =
                                [@ EXCEPT !.training_process = pid,
                                          !.pc = "update_pid"]]
         ELSE /\ calls' = [calls EXCEPT ![k] =
                             [@ EXCEPT !.exc = "OSError",
                                       !.pc = "launch_failed"]]
              /\ UNCHANGED <<runs, log_dirs>>
    /\ UNCHANGED <<experiments, prev_status, pool, handed, checkpoints,
                   notifications>>
    /\ UNCHANGED env

\* variant of the launch-failure handler that also marks the record FAILED
launch_failed_marks_failed(k) ==
    /\ calls[k].pc = "launch_failed"
    /\ experiments' = update_experiment(experiments, calls[k].experiment.id,
                                        [status |-> "FAILED",
                                         end_date |-> TRUE])
    /\ prev_status' = status_written(prev_status, experiments,
                                     calls[k].experiment.id)
    /\ \E delivered \in BOOLEAN :
         /\ notifications' =
              IF delivered
              THEN send_message_to_owner(notifications, calls[k].op, k,
                                         calls[k].experiment, "failed",
                                         calls[k].exc)
              ELSE notifications
         /\ calls' = [calls EXCEPT ![k] =
                        Returned(@, IF delivered THEN calls[k].exc
                                    ELSE "SendError")]
    /\ UNCHANGED <<pool, handed, log_dirs, checkpoints, runs>>
    /\ UNCHANGED env

\* except Exception as e: send_message_to_owner(...failed...); raise e
\* (the exception leaves continue_experiment_group as well: its loop has no
\* handler)
launch_failed(k) ==
    /\ calls[k].pc = "launch_failed"
    /\ \E delivered \in BOOLEAN :
         /\ notifications' =
              IF delivered
              THEN send_message_to_owner(notifications, calls[k].op, k,
                                         calls[k].experiment, "failed",
                                         calls[k].exc)
              ELSE notifications
         /\ calls' = [calls EXCEPT ![k] =
                        Returned(@, IF delivered THEN calls[k].exc
                                    ELSE "SendError")]
    /\ UNCHANGED <<experiments, prev_status, pool, handed, log_dirs,
                   checkpoints, runs>>
    /\ UNCHANGED env

\* update_experiment(pid = training_process.pid); return experiment
update_pid(k) ==
    /\ calls[k].pc = "update_pid"
    /\ experiments' = update_experiment(experiments, calls[k].experiment.id,
                                        [pid |-> calls[k].training_process])
    /\ calls' = [calls EXCEPT ![k] =
                   IF @.op = "run_new" THEN Returned(@, "none")
                   ELSE MemberReturned(@)]
    /\ UNCHANGED <<prev_status, pool, handed, log_dirs, checkpoints,
                   notifications, runs>>
    /\ UNCHANGED env

\* train_model called with an explicit num_envs on a stored experiment that
\* waits for its worker (both facade workflows start the worker on PENDING)
call_train_model(k, experiment_id, num_envs) ==
    /\ NextCall(k)
    /\ experiments[experiment_id].exists
    /\ experiments[experiment_id].status = "PENDING"
    /\ LET pid == Pid(k, 0)
       IN runs' = [runs EXCEPT ![pid] =
                     spawn(experiments[experiment_id], experiment_id,
                           num_envs, "train_model", k)]
    /\ log_dirs' = open_train_log(log_dirs, experiment_id)
    /\ calls' = [calls EXCEPT ![k] =
                   Returned([IdleCall EXCEPT !.op = "train_model",
                                             !.experiment.id = experiment_id],
                            "none")]
    /\ UNCHANGED <<experiments, prev_status, pool, handed, checkpoints,
                   notifications>>
    /\ UNCHANGED env

(* --------------------------- specification ----------------------------- *)
\* the steps every facade call takes after its first one
FacadeStep ==
    \/ \E k \in Calls : run_new_create_experiment(k)
    \/ \E k \in Calls : continue_experiement_with_monitoring(k)
    \/ \E k \in Calls : continue_update_experiment(k)
    \/ \E k \in Calls : start_process(k)
    \/ \E k \in Calls : launch_failed(k)
    \/ \E k \in Calls : update_pid(k)

\* facade calls on single experiments with their default group and positive
\* step counts, direct supervisor invocations, and the workers
Next ==
    \/ \E k \in Calls, user \in Users, model \in ModelKinds,
          total_timesteps \in StepChoices :
         run_new_single_experiment_with_monitoring(k, user, model,
                                                   total_timesteps, None)
    \/ \E k \in Calls, user \in Users, e \in Exps,
          total_timesteps \in StepChoices :
         get_experiment(k, user, e, total_timesteps)
    \/ FacadeStep
    \/ \E k \in Calls, e \in Exps, num_envs \in 0..MaxEnvs :
         call_train_model(k, e, num_envs)
    \/ \E r \in Runs : train_model(r)

Spec == Init /\ [][Next]_vars

\* the facade with every argument it accepts: experiments that join a group,
\* resumes of a whole group, any step count; the workers it starts are left
\* waiting for the scheduler
NextFacade ==
    \/ \E k \in Calls, user \in Users, model \in ModelKinds,
          total_timesteps \in StepChoices, group_id \in {None} \cup GroupIds :
         run_new_single_experiment_with_monitoring(k, user, model,
                                                   total_timesteps, group_id)
    \/ \E k \in Calls, user \in Users, e \in Exps,
          total_timesteps \in ExtraSteps :
         get_experiment(k, user, e, total_timesteps)
    \/ \E k \in Calls, user \in Users, group_id \in GroupIds,
          total_timesteps \in ExtraSteps :
         continue_experiment_group(k, user, group_id, total_timesteps)
    \/ FacadeStep

SpecFacade == Init /\ [][NextFacade]_vars

\* concurrent resumes of one experiment: the store holds the record of an
\* "a2c" experiment whose run has completed, and the calls are resumes of
\* single experiments and of groups with any step count
FinishedExperiment == [LegacyExperiment EXCEPT !.model = "a2c"]

InitResume ==
    /\ experiments = [e \in Exps |-> IF e = 1 THEN FinishedExperiment
                                     ELSE NoExperiment]
    /\ prev_status = [e \in Exps |->
                        IF experiments[e].exists THEN "RUNNING" ELSE "NONE"]
    /\ pool = [c \in Clients |->
                [status |-> "AVALIABLE", current_experiment |-> None]]
    /\ handed = [c \in Clients |-> {}]
    /\ log_dirs = [e \in Exps |-> IF experiments[e].exists THEN LegacyDir
                                 ELSE NoDir]
    /\ checkpoints = [e \in Exps |-> 0]
    /\ notifications = {}
    /\ runs = [r \in Runs |-> IdleRun]
    /\ calls = [k \in Calls |-> IdleCall]
    /\ env = NewEnvironment

NextResume ==
    \/ \E k \in Calls, user \in Users, e \in Exps,
          total_timesteps \in ExtraSteps :
         get_experiment(k, user, e, total_timesteps)
    \/ \E k \in Calls, user \in Users, group_id \in GroupIds,
          total_timesteps \in ExtraSteps :
         continue_experiment_group(k, user, group_id, total_timesteps)
    \/ \E k \in Calls : continue_experiement_with_monitoring(k)
    \/ \E k \in Calls : continue_update_experiment(k)
    \/ \E k \in Calls : start_process(k)
    \/ \E k \in Calls : launch_failed(k)
    \/ \E k \in Calls : update_pid(k)

SpecResume == InitResume /\ [][NextResume]_vars

\* the release of the finalizer on any pool: workers that stand before the
\* finally clause with any address of the pool, a pool whose entries are
\* AVALIABLE or RESERVED for any experiment
ReleasingRuns ==
    {[IdleRun EXCEPT !.pc = "finally", !.client_address = c,
                     !.runner = x, !.experiment.id = e,
                     !.launcher = "train_model"] :
        c \in Clients, x \in {"returned", "raised"}, e \in Exps}

PoolEntries ==
    {[status |-> "AVALIABLE", current_experiment |-> None]}
        \cup {[status |-> "RESERVED", current_experiment |-> e] : e \in Exps}

InitRelease ==
    /\ experiments = [e \in Exps |-> NoExperiment]
    /\ prev_status = [e \in Exps |-> "NONE"]
    /\ pool \in [Clients -> PoolEntries]
    /\ handed = [c \in Clients |-> {}]
    /\ log_dirs = [e \in Exps |-> NoDir]
    /\ checkpoints = [e \in Exps |-> 0]
    /\ notifications = {}
    /\ \E held \in [Calls -> ReleasingRuns \cup {IdleRun}] :
         runs = [r \in Runs |-> IF r \in Calls THEN held[r] ELSE IdleRun]
    /\ calls = [k \in Calls |-> IdleCall]
    /\ env = NewEnvironment

NextRelease == \E r \in Runs : train_model_finally(r)

SpecRelease == InitRelease /\ [][NextRelease]_vars

\* save_experiment_checkpoint on any log directory: the directory of the
\* first experiment holds any files, and has no checkpoint subdirectory or
\* one with any earlier copies
LogDirs ==
    {d \in [exists : {TRUE}, files : [FileNames -> Contents],
            checkpoint_exists : BOOLEAN,
            checkpoint : [FileNames -> Contents]] :
        ~d.checkpoint_exists => d.checkpoint = NoDir.checkpoint}

InitCheckpoint ==
    /\ experiments = [e \in Exps |-> NoExperiment]
    /\ prev_status = [e \in Exps |-> "NONE"]
    /\ pool = [c \in Clients |->
                [status |-> "AVALIABLE", current_experiment |-> None]]
    /\ handed = [c \in Clients |-> {}]
    /\ \E d \in LogDirs : log_dirs = [e \in Exps |-> IF e = 1 THEN d ELSE NoDir]
    /\ checkpoints = [e \in Exps |-> 0]
    /\ notifications = {}
    /\ runs = [r \in Runs |-> IdleRun]
    /\ calls = [k \in Calls |-> IdleCall]
    /\ env = NewEnvironment

\* one call save_experiment_checkpoint(log_dir) that returns
checkpoint_call(log_dir) ==
    /\ log_dirs[log_dir].exists
    /\ checkpoints[log_dir] < MaxCheckpoints
    /\ save_experiment_checkpoint(log_dirs[log_dir]).exc = "none"
    /\ log_dirs' = [log_dirs EXCEPT ![log_dir] =
                       save_experiment_checkpoint(@).dir]
    /\ checkpoints' = [checkpoints EXCEPT ![log_dir] = @ + 1]
    /\ UNCHANGED <<experiments, prev_status, pool, handed, notifications,
                   runs, calls>>
    /\ UNCHANGED env

NextCheckpoint == \E log_dir \in Exps : checkpoint_call(log_dir)

SpecCheckpoint == InitCheckpoint /\ [][NextCheckpoint]_vars

\* one MalmoEnvironment object: init with any settings, then resets whose
\* startMission calls succeed or raise RuntimeError
NextReset ==
    \/ \E client_pool \in BOOLEAN, max_retries \in 0..MaxRetries,
          forceWorldReset \in BOOLEAN :
         init(client_pool, max_retries, forceWorldReset)
    \/ \E force_reset \in BOOLEAN : reset(force_reset)
    \/ \E started \in BOOLEAN : reset_start_mission(started)
    \/ reset_retry_sleep
    \/ \E frame \in Frames : reset_mission_begun(frame)

SpecReset == Init /\ [][NextReset]_vars

\* one MalmoEnvironment object built with or without a world state parser:
\* resets whose mission starts at once, steps with any action and any frame,
\* and missions that end between or during steps
InitStep ==
    /\ experiments = [e \in Exps |-> NoExperiment]
    /\ prev_status = [e \in Exps |-> "NONE"]
    /\ pool = [c \in Clients |->
                [status |-> "AVALIABLE", current_experiment |-> None]]
    /\ handed = [c \in Clients |-> {}]
    /\ log_dirs = [e \in Exps |-> NoDir]
    /\ checkpoints = [e \in Exps |-> 0]
    /\ notifications = {}
    /\ runs = [r \in Runs |-> IdleRun]
    /\ calls = [k \in Calls |-> IdleCall]
    /\ env \in {[NewEnvironment EXCEPT !.parse_world_state = parse_world_state] :
                   parse_world_state \in BOOLEAN}

NextStep ==
    \/ \E client_pool \in BOOLEAN : init(client_pool, 0, FALSE)
    \/ \E force_reset \in BOOLEAN : reset(force_reset)
    \/ reset_start_mission(TRUE)
    \/ \E frame \in Frames : reset_mission_begun(frame)
    \/ mission_ends
    \/ \E commands \in 1..MaxCommands, frame \in Frames, ended \in BOOLEAN :
         step(commands, frame, ended)

SpecStep == InitStep /\ [][NextStep]_vars


(* ------------------------------ claims --------------------------------- *)
Exited(r) == runs[r].pc = "exit"
Released(c) == pool[c].status = "AVALIABLE" /\ pool[c].current_experiment = None
SentBy(r) == {m \in notifications : m.by = "train_model" /\ m.n = r}

\* C1: once train_model has returned or raised, every client the run
\* reserved (num_envs >= 1) is AVALIABLE with an empty holder.
C1_ReservedClientsReleasedAtExit ==
    \A r \in Runs :
        (Exited(r) /\ runs[r].num_envs >= 1) =>
            \A c \in runs[r].reserved : Released(c)

\* C2: every persisted status write follows the state machine: creation
\* writes PENDING, PENDING is followed by RUNNING, RUNNING by COMPLETED or
\* FAILED, and only COMPLETED or FAILED by PENDING; no value is written twice
\* in a row.
LegalStatusSteps ==
    {<<"NONE", "PENDING">>, <<"PENDING", "RUNNING">>,
     <<"RUNNING", "COMPLETED">>, <<"RUNNING", "FAILED">>,
     <<"COMPLETED", "PENDING">>, <<"FAILED", "PENDING">>}

C2_StatusFollowsStateMachine ==
    \A e \in Exps :
        experiments[e].exists =>
            <<prev_status[e], experiments[e].status>> \in LegalStatusSteps

\* C3: no pool entry is handed to two workers while it stays reserved; a
\* worker leaves the acquisition loop only with an address it was handed,
\* and a worker still in the loop holds nothing.
C3_NoDoubleReservation ==
    /\ \A c \in Clients : Cardinality(handed[c]) <= 1
    /\ \A r \in Runs :
         /\ runs[r].pc = "reserve" =>
                runs[r].client_address = None /\ runs[r].reserved = {}
         /\ runs[r].pc = "parse" =>
                /\ runs[r].client_address \in Clients
                /\ handed[runs[r].client_address] = {r}

\* C3 witness: one worker was handed the only entry, another has polled,
\* got nothing and is still polling.
C3_Witness ==
    \E r1, r2 \in Runs :
        /\ r1 # r2
        /\ runs[r1].client_address \in Clients
        /\ handed[runs[r1].client_address] = {r1}
        /\ runs[r2].pc = "reserve" /\ runs[r2].waited
        /\ AvailableClients(pool) = {}

\* C4: a pool entry is AVALIABLE exactly when its holder is empty, and a
\* reserved entry names one experiment, that of the worker it was handed to.
C4_AvailableIffNoHolder ==
    \A c \in Clients :
        /\ pool[c].status \in {"AVALIABLE", "RESERVED"}
        /\ pool[c].status = "AVALIABLE" <=> pool[c].current_experiment = None
        /\ pool[c].status = "RESERVED" =>
              /\ pool[c].current_experiment \in Exps
              /\ \A r \in handed[c] :
                    runs[r].experiment.id = pool[c].current_experiment

\* C4 witness: an entry is reserved for an experiment.
C4_Witness ==
    \E c \in Clients, r \in Runs :
        /\ pool[c].status = "RESERVED"
        /\ handed[c] = {r}
        /\ pool[c].current_experiment = runs[r].experiment.id

\* C5: a worker calls send_message_to_owner exactly once after it has
\* written COMPLETED or FAILED and not at all before (in particular not for
\* PENDING -> RUNNING); the message goes to the owner of the experiment
\* object the worker holds and says completed or failed accordingly.
C5_OneNotificationPerTerminalTransition ==
    \A r \in Runs :
        /\ runs[r].sends =
              IF runs[r].pc \in {"finally", "exit"}
                 /\ runs[r].runner # "not_called"
              THEN 1 ELSE 0
        /\ Cardinality(SentBy(r)) =
              IF runs[r].sends = 1 /\ ~runs[r].send_failed THEN 1 ELSE 0
        /\ \A m \in SentBy(r) :
              /\ m.to = runs[r].experiment.owner
              /\ m.experiment = runs[r].experiment.id
              /\ m.kind = IF runs[r].runner = "raised"
                          THEN "failed" ELSE "completed"

\* C5 witness: a worker has written COMPLETED and its one message is out.
C5_Witness ==
    \E r \in Runs :
        /\ Exited(r) /\ runs[r].runner = "returned"
        /\ experiments[runs[r].experiment.id].status = "COMPLETED"
        /\ Cardinality(SentBy(r)) = 1

\* C6: a worker started by run_new whose training entry point does not raise
\* and whose notification does not fail ends with the experiment COMPLETED,
\* end_date set, its clients AVALIABLE again and one success message sent.
C6_RunNewEndsCompleted ==
    \A r \in Runs :
        (Exited(r) /\ runs[r].launcher = "run_new"
         /\ runs[r].runner # "raised" /\ ~runs[r].send_failed) =>
            /\ experiments[runs[r].experiment.id].status = "COMPLETED"
            /\ experiments[runs[r].experiment.id].end_date
            /\ \A c \in runs[r].reserved : Released(c)
            /\ \E m \in SentBy(r) : m.kind = "completed"
            /\ Cardinality(SentBy(r)) = 1

\* C7: when the training entry point has raised (and the failure message was
\* delivered), train_model ends with the experiment FAILED, end_date set, one
\* failure message carrying the exception's detail, its clients released, and
\* the entry point's exception raised to the caller.
C7_FailureHandledAndReraised ==
    \A r \in Runs :
        (Exited(r) /\ runs[r].runner = "raised" /\ ~runs[r].send_failed) =>
            /\ experiments[runs[r].experiment.id].status = "FAILED"
            /\ experiments[runs[r].experiment.id].end_date
            /\ \E m \in SentBy(r) :
                   m.kind = "failed" /\ m.detail = "RuntimeError"
            /\ Cardinality(SentBy(r)) = 1
            /\ \A c \in runs[r].reserved : Released(c)
            /\ runs[r].exc = "RuntimeError"

\* C9: the send that fails changes no experiment record, and after it the
\* worker neither writes an experiment record nor sends again.
C9_FailedSendNotRolledBackNorRetried ==
    [][\A r \in Runs :
          /\ (~runs[r].send_failed /\ runs'[r].send_failed) =>
                experiments' = experiments
          /\ (runs[r].send_failed /\ runs'[r] # runs[r]) =>
                /\ experiments' = experiments
                /\ notifications' = notifications
                /\ runs'[r].sends = 1
                /\ runs'[r].send_failed]_vars

\* C9 witness: a worker whose terminal message failed has left train_model
\* and the record still carries the terminal status and end_date.
C9_Witness ==
    \E r \in Runs :
        /\ Exited(r) /\ runs[r].send_failed /\ runs[r].sends = 1
        /\ experiments[runs[r].experiment.id].status
              \in {"COMPLETED", "FAILED"}
        /\ experiments[runs[r].experiment.id].end_date

\* C10: the step in which run_new or continue_single raises KeyError is the
\* first step of the call and changes nothing but the call's own outcome:
\* no record, directory, checkpoint, process, pool entry or message.
C10_UnknownModelChangesNothing ==
    [][\A k \in Calls :
          (calls[k].pc # "done" /\ calls'[k].pc = "done"
           /\ calls'[k].exc = "KeyError") =>
              /\ calls[k].pc \in {"idle", "continue"}
              /\ UNCHANGED <<experiments, prev_status, pool, handed, log_dirs,
                             checkpoints, notifications, runs>>]_vars

\* C10 witness: a run_new call and a continue_single call have both failed
\* with KeyError.
C10_Witness ==
    \E k1, k2 \in Calls :
        /\ calls[k1].pc = "done" /\ calls[k1].exc = "KeyError"
        /\ calls[k1].op = "run_new"
        /\ calls[k2].pc = "done" /\ calls[k2].exc = "KeyError"
        /\ calls[k2].op = "continue"


\* C11: when the process launch throws inside run_new, the handler sends one
\* failure message to the owner and the launch exception goes to the caller
\* (the exception of the send, when the send itself raises); from the launch
\* attempt to the end of the call no experiment record is written (the
\* status stays as created, no pid is recorded) and no worker exists.
LaunchFailureMessage(k) ==
    [by |-> "run_new", n |-> k, to |-> calls[k].experiment.owner,
     experiment |-> calls[k].experiment.id, kind |-> "failed",
     detail |-> "OSError"]

C11_LaunchFailureNotifiesAndStaysPending ==
    [][\A k \in Calls :
          /\ (calls[k].op = "run_new" /\ calls[k].pc = "start_process"
              /\ calls'[k].pc = "launch_failed") =>
                /\ experiments' = experiments
                /\ runs' = runs
                /\ calls'[k].exc = "OSError"
          /\ (calls[k].op = "run_new" /\ calls[k].pc = "launch_failed"
              /\ calls'[k] # calls[k]) =>
                /\ calls'[k].pc = "done"
                /\ experiments' = experiments
                /\ runs' = runs
                /\ \/ /\ calls'[k].exc = "OSError"
                      /\ LaunchFailureMessage(k) \notin notifications
                      /\ notifications' =
                            notifications \cup {LaunchFailureMessage(k)}
                   \/ /\ calls'[k].exc = "SendError"
                      /\ notifications' = notifications]_vars

\* C11 witness: a run_new call has ended with the launch exception, its
\* message is out, the record is PENDING without a pid and no worker of the
\* call exists.
C11_Witness ==
    \E k \in Calls :
        /\ calls[k].pc = "done" /\ calls[k].op = "run_new"
        /\ calls[k].exc = "OSError"
        /\ \E m \in notifications :
              /\ m.by = "run_new" /\ m.n = k /\ m.kind = "failed"
              /\ m.detail = "OSError"
              /\ m.experiment = calls[k].experiment.id
              /\ m.to = experiments[calls[k].experiment.id].owner
        /\ experiments[calls[k].experiment.id].status = "PENDING"
        /\ experiments[calls[k].experiment.id].pid = NoPid
        /\ \A r \in Runs : runs[r].call # k


\* C12: the record update of a resume whose experiment object is current
\* (persisted total T, extra steps E) persists T + E and PENDING on the same
\* id and touches no other record; the process the resume then starts is a
\* new worker with the same experiment id and the log directory of that id,
\* which is the directory every worker of the experiment gets.
C12_ResumePersistsSumAndRelaunches ==
    [][\A k \in Calls :
          LET id == calls[k].experiment.id
          IN /\ (calls[k].pc = "update_experiment"
                 /\ calls'[k].pc = "start_process") =>
                   /\ experiments'[id].status = "PENDING"
                   /\ experiments'[id].id = id
                   /\ calls[k].experiment.total_timesteps
                         = experiments[id].total_timesteps =>
                        experiments'[id].total_timesteps =
                            experiments[id].total_timesteps
                            + calls[k].total_timesteps
                   /\ \A e \in Exps \ {id} : experiments'[e] = experiments[e]
             /\ (calls[k].op # "run_new" /\ calls[k].pc = "start_process"
                 /\ calls'[k].pc = "update_pid") =>
                   LET pid == calls'[k].training_process
                   IN /\ runs[pid].pc = "idle" /\ runs'[pid].pc # "idle"
                      /\ runs'[pid].experiment.id = id
                      /\ runs'[pid].log_dir = id
                      /\ log_dirs'[id].exists
                      /\ \A r \in Runs :
                            (runs'[r].pc # "idle"
                             /\ runs'[r].experiment.id = id) =>
                                runs'[r].log_dir = runs'[pid].log_dir]_vars

\* C12 witness: a resume of an experiment created with one step has
\* returned; the record holds two steps and the worker of the first run and
\* the worker of the resume share the log directory.
C12_Witness ==
    \E k \in Calls, r1, r2 \in Runs :
        /\ calls[k].pc = "done" /\ calls[k].op = "continue"
        /\ calls[k].exc = "none"
        /\ experiments[calls[k].experiment.id].total_timesteps = 2
        /\ runs[r1].launcher = "run_new" /\ runs[r2].launcher = "continue"
        /\ runs[r2].call = k
        /\ runs[r1].experiment.id = calls[k].experiment.id
        /\ runs[r2].experiment.id = calls[k].experiment.id
        /\ runs[r1].log_dir = runs[r2].log_dir


\* C13: no step lowers the persisted total_timesteps of an experiment.
C13_TotalTimestepsNeverDecrease ==
    [][\A e \in Exps :
          experiments[e].exists =>
              experiments'[e].total_timesteps
                  >= experiments[e].total_timesteps]_vars


\* C14: a resume of a group that is over, with or without an exception, has
\* come to every member of the group: no member after a failed one is left
\* without its relaunch attempt.
C14_GroupAttemptsEveryMember ==
    \A k \in Calls :
        (calls[k].op = "continue_group" /\ calls[k].pc = "done") =>
            calls[k].not_attempted = 0


\* C15: a resume that is past its validation has taken exactly one
\* checkpoint of the log directory, and has taken it before its record
\* update and before its worker start: the checkpoint is the step that
\* follows the validation, the record is written and the worker started only
\* by a call that holds its one checkpoint, and no later step of the call
\* takes another.
C15_OneCheckpointBeforeUpdateAndStart ==
    [][\A k \in Calls :
          calls[k].op \in {"continue", "continue_group"} =>
            /\ (calls[k].pc = "continue"
                /\ calls'[k].pc = "update_experiment") =>
                  /\ calls[k].checkpointed = 0 /\ calls'[k].checkpointed = 1
                  /\ log_dirs'[calls[k].experiment.id].checkpoint_exists
                  /\ log_dirs'[calls[k].experiment.id].checkpoint
                        = log_dirs[calls[k].experiment.id].files
                  /\ checkpoints'[calls[k].experiment.id]
                        = checkpoints[calls[k].experiment.id] + 1
                  /\ experiments' = experiments /\ runs' = runs
            /\ (calls[k].pc \in {"update_experiment", "start_process",
                                 "launch_failed", "update_pid"}
                /\ calls'[k] # calls[k]) =>
                  /\ calls[k].checkpointed = 1
                  /\ checkpoints' = checkpoints
                  /\ calls'[k].pc \in {"start_process", "launch_failed",
                                       "update_pid"} =>
                        calls'[k].checkpointed = 1]_vars

\* C15 witness: a resume has started its worker after its one checkpoint,
\* which holds the files of the first run.
C15_Witness ==
    \E k \in Calls :
        /\ calls[k].op = "continue" /\ calls[k].pc = "update_pid"
        /\ calls[k].checkpointed = 1
        /\ checkpoints[calls[k].experiment.id] = 1
        /\ log_dirs[calls[k].experiment.id].checkpoint["train.log"] = 1
        /\ runs[calls[k].training_process].pc # "idle"
        /\ experiments[calls[k].experiment.id].load_path


\* C16: a worker that holds a client ends only through its cleanup step, and
\* when it has ended every client it reserved is AVALIABLE with an empty
\* holder.
C16_EarlyStopPassesCleanup ==
    [][\A r \in Runs :
          (runs[r].pc # "exit" /\ runs'[r].pc = "exit"
           /\ runs'[r].reserved # {}) =>
              /\ runs[r].pc = "finally"
              /\ \A c \in runs'[r].reserved :
                    /\ pool'[c].status = "AVALIABLE"
                    /\ pool'[c].current_experiment = None]_vars


\* C17: the release of the finalizer leaves the entry AVALIABLE with an empty
\* holder and raises nothing, whatever the entry was; on an entry that is
\* AVALIABLE with an empty holder already it changes nothing in the pool.
C17_ReleaseIdempotent ==
    [][\A r \in Runs :
          (runs[r].pc = "finally" /\ runs'[r].pc = "exit"
           /\ runs[r].client_address \in Clients) =>
              LET c == runs[r].client_address
              IN /\ pool'[c].status = "AVALIABLE"
                 /\ pool'[c].current_experiment = None
                 /\ runs'[r].exc = runs[r].exc
                 /\ \A d \in Clients \ {c} : pool'[d] = pool[d]
                 /\ Released(c) => pool' = pool]_vars

\* C17 witness: two workers have released the same entry one after the
\* other, neither ended with an error, and the entry is AVALIABLE.
C17_Witness ==
    \E r1, r2 \in Runs :
        /\ r1 # r2 /\ Exited(r1) /\ Exited(r2)
        /\ runs[r1].client_address \in Clients
        /\ runs[r1].client_address = runs[r2].client_address
        /\ runs[r1].exc = "none" /\ runs[r2].exc = "none"
        /\ Released(runs[r1].client_address)


\* C18: on a log directory that was checkpointed and whose files did not
\* change since, another save_experiment_checkpoint raises nothing (the
\* existing checkpoint directory is no error), leaves the directory as it
\* is, and the checkpoint holds copies of regular files only: every file of
\* the log directory, with its content, and never the checkpoint directory
\* itself.
C18_CheckpointIdempotent ==
    \A e \in Exps :
        checkpoints[e] >= 1 =>
            /\ log_dirs[e].checkpoint_exists
            /\ save_experiment_checkpoint(log_dirs[e]).exc = "none"
            /\ save_experiment_checkpoint(log_dirs[e]).dir = log_dirs[e]
            /\ "checkpoint" \in listdir(log_dirs[e])
            /\ DOMAIN log_dirs[e].checkpoint = FileNames
            /\ \A n \in FileNames :
                  log_dirs[e].files[n] # 0 =>
                      log_dirs[e].checkpoint[n] = log_dirs[e].files[n]

\* C18 witness: a directory that had a checkpoint with an older copy of its
\* log has been checkpointed twice; the copy is the present log.
C18_Witness ==
    /\ checkpoints[1] = 2
    /\ log_dirs[1].files["train.log"] = 2
    /\ log_dirs[1].checkpoint["train.log"] = 2
    /\ log_dirs[1].files["model.pkl"] = 0
    /\ log_dirs[1].checkpoint["model.pkl"] = 1


\* the counts of the present reset at each point of its retry loop
ResetRetryCounts ==
    /\ env.attempts <= env.max_retries + 1
    /\ env.retry <= env.max_retries
    /\ env.pc = "start_mission" =>
          /\ env.failed = env.attempts /\ env.sleeps = env.attempts
          /\ env.retry = env.attempts
    /\ env.pc = "retry_sleep" =>
          /\ env.failed = env.attempts /\ env.sleeps = env.attempts - 1
          /\ env.attempts <= env.max_retries
    /\ env.pc \in {"wait_begun", "running"} =>
          /\ env.failed = env.attempts - 1 /\ env.sleeps = env.failed
          /\ env.exc = "none"
    /\ env.pc = "raised" =>
          /\ env.attempts = env.max_retries + 1
          /\ env.failed = env.attempts /\ env.sleeps = env.max_retries
          /\ env.exc = "RuntimeError"
    /\ env.exc # "none" => env.pc = "raised"

\* C19: in every reset, startMission is attempted at most max_retries + 1
\* times; the attempt that succeeds is the last one (no attempt and no sleep
\* follows it until the next reset); every failed attempt but the last
\* possible one is followed by one sleep; and the RuntimeError leaves reset
\* exactly when max_retries + 1 attempts have all failed.
C19_ResetRetriesBounded ==
    /\ []ResetRetryCounts
    /\ [][(env.pc \in {"wait_begun", "running", "raised"}
           /\ env'.num_resets = env.num_resets) =>
              /\ env'.attempts = env.attempts
              /\ env'.sleeps = env.sleeps
              /\ env'.failed = env.failed]_vars

\* C19 witness: with max_retries = 2 a reset has raised after three failed
\* attempts and two sleeps.
C19_Witness ==
    /\ env.pc = "raised" /\ env.max_retries = 2
    /\ env.attempts = 3 /\ env.failed = 3 /\ env.sleeps = 2
    /\ env.exc = "RuntimeError"


\* C20: a worker comes to the call of the training entry point only by the
\* step that persists RUNNING for its experiment, which it takes only after
\* its acquisition loop has reserved num_envs clients; the entry point is
\* invoked only from there, by a worker that holds num_envs reservations.
C20_RunnerOnlyAfterRunningAndReserved ==
    [][\A r \in Runs :
          /\ (runs[r].pc # "runner" /\ runs'[r].pc = "runner") =>
                /\ runs[r].pc = "try"
                /\ experiments[runs[r].experiment.id].status = "PENDING" =>
                      prev_status'[runs[r].experiment.id] = "PENDING"
                /\ experiments'[runs[r].experiment.id].status = "RUNNING"
                /\ Cardinality(runs[r].reserved) = runs[r].num_envs
                /\ Len(runs[r].client_pool) = runs[r].num_envs
          /\ (runs[r].runner = "not_called"
              /\ runs'[r].runner # "not_called") =>
                /\ runs[r].pc = "runner"
                /\ Cardinality(runs[r].reserved) = runs[r].num_envs
                /\ Len(runs[r].client_pool) = runs[r].num_envs]_vars

\* C20 witness: the entry point of a worker has been invoked and has
\* returned while the record says RUNNING, written over PENDING.
C20_Witness ==
    \E r \in Runs :
        /\ runs[r].pc = "else" /\ runs[r].runner = "returned"
        /\ experiments[runs[r].experiment.id].status = "RUNNING"
        /\ prev_status[runs[r].experiment.id] = "PENDING"
        /\ Cardinality(runs[r].reserved) = runs[r].num_envs


\* C21: the list a run passes on holds one parsed (host, port) pair per
\* reservation of the run: once a run has left the parsing of an address it
\* was handed, its client list has as many entries as it has reservations,
\* and a run that is past its acquisition loop has exactly num_envs entries.
C21_ClientListHoldsParsedReservations ==
    \A r \in Runs :
        /\ (runs[r].pc \notin {"idle", "reserve", "parse"}) =>
              Len(runs[r].client_pool) = Cardinality(runs[r].reserved)
        /\ (runs[r].pc \in {"try", "runner", "except", "else", "finally"}) =>
              Len(runs[r].client_pool) = runs[r].num_envs


\* C22: while no client is AVALIABLE a run stays in its acquisition loop: a
\* pass of the loop that finds no client raises nothing, sends no
\* notification, writes neither the store nor the pool, records the wait and
\* leaves the run polling with no address; a polling run has raised nothing
\* and sent nothing.
C22_WaitsWhileNoClientAvailable ==
    /\ [](\A r \in Runs :
            runs[r].pc = "reserve" =>
                /\ runs[r].exc = "none"
                /\ runs[r].client_address = None
                /\ SentBy(r) = {})
    /\ [][\A r \in Runs :
            (runs[r].pc = "reserve" /\ AvailableClients(pool) = {}
             /\ runs'[r] # runs[r]) =>
                /\ runs'[r].pc = "reserve"
                /\ runs'[r].waited
                /\ runs'[r].exc = "none"
                /\ runs'[r].client_address = None
                /\ runs'[r].reserved = runs[r].reserved
                /\ notifications' = notifications
                /\ experiments' = experiments
                /\ pool' = pool]_vars

\* C22 witness: a run of a PENDING experiment has polled an exhausted pool,
\* waited, and is polling again with nothing raised and nothing sent.
C22_Witness ==
    \E r \in Runs :
        /\ runs[r].pc = "reserve" /\ runs[r].waited
        /\ runs[r].exc = "none" /\ SentBy(r) = {}
        /\ AvailableClients(pool) = {}
        /\ experiments[runs[r].experiment.id].status = "PENDING"


\* C23: every notification of a run goes to the owner persisted in the store
\* when the run was launched: the experiment object a launched run holds, whose
\* owner field is the recipient of its success and failure notifications,
\* names the persisted owner, and the failure notification a facade call sends
\* for a launch that failed is addressed to the persisted owner.
C23_NotificationsGoToPersistedOwner ==
    /\ [][\A r \in Runs :
            (runs[r].pc = "idle" /\ runs'[r].pc # "idle") =>
                runs'[r].experiment.owner =
                    experiments'[runs'[r].experiment.id].owner]_vars
    /\ [][\A m \in notifications' \ notifications :
            m.by # "train_model" =>
                m.to = experiments[m.experiment].owner]_vars


\* C24: no resume loses an update of total_timesteps: the record update of
\* every resume raises the total persisted at that moment by the extra steps
\* of the call, so two resumes of one experiment with extra steps a and b
\* leave the total raised by a + b whatever their interleaving.
C24_NoLostUpdate ==
    [][\A k \in Calls :
          (calls[k].pc = "update_experiment"
           /\ calls'[k].pc = "start_process") =>
              experiments'[calls[k].experiment.id].total_timesteps =
                  experiments[calls[k].experiment.id].total_timesteps
                  + calls[k].total_timesteps]_vars


C26_ReplayBufferIsFifo ==
    /\ [](env.pc = "running" => Len(env.replay_buffer) = replay_buffer_size)
    /\ [][(env.pc = "wait_begun" /\ env'.pc = "running"
           /\ ~env.parse_world_state) =>
             /\ Len(env'.replay_buffer) = replay_buffer_size
             /\ env'.replay_buffer[1] = env'.frame
             /\ \A i \in 2..replay_buffer_size :
                   env'.replay_buffer[i] = 0]_vars
    /\ [][(env.pc = "running" /\ env'.pc = "running"
           /\ ~env.parse_world_state
           /\ (env'.frame # env.frame
               \/ env'.replay_buffer # env.replay_buffer)) =>
             /\ Len(env'.replay_buffer) = replay_buffer_size
             /\ env'.replay_buffer[1] = env'.frame
             /\ \A i \in 2..replay_buffer_size :
                   env'.replay_buffer[i] = env.replay_buffer[i - 1]]_vars
    /\ [][(env.pc = "running" /\ env'.pc = "running"
           /\ env.parse_world_state) =>
             env'.replay_buffer = env.replay_buffer]_vars

\* C26 witness: two steps after a reset the buffer holds the frame of the
\* last step in front of the frame of the step before it, and the frame of
\* the reset has left the buffer.
C26_Witness ==
    /\ env.pc = "running" /\ ~env.parse_world_state
    /\ env.num_actions = 2
    /\ Len(env.replay_buffer) = replay_buffer_size
    /\ env.replay_buffer[1] = 2 /\ env.replay_buffer[2] = 1
    /\ env.frame = 2


\* C27: step sends the commands of its action exactly when the mission is
\* running at the moment it is called, and num_actions is the number of such
\* steps since the last reset: reset sets it to 0, a step on a running
\* mission sends and adds one, a step after the mission has ended sends
\* nothing, leaves num_actions as it is and returns done = true.
C27_StepActsIffMissionRunning ==
    /\ [](env.num_actions = env.taken)
    /\ [][(env.pc # "start_mission" /\ env'.pc = "start_mission"
           /\ env.pc # "retry_sleep") =>
             env'.num_actions = 0]_vars
    /\ [][(env.pc = "running" /\ env'.pc = "running" /\ env.running
           /\ env' # env /\ env' # [env EXCEPT !.running = FALSE]) =>
             /\ env'.stepped
             /\ env'.sent >= 1
             /\ env'.num_actions = env.num_actions + 1
             /\ env'.done = ~env'.running]_vars
    /\ [][(env.pc = "running" /\ env'.pc = "running" /\ env'.stepped
           /\ ~env.running) =>
             /\ env'.sent = 0
             /\ env'.num_actions = env.num_actions
             /\ env'.done
             /\ ~env'.running]_vars

\* C27 witness: after a reset one step was taken on the running mission, the
\* mission then ended, and a further step has sent nothing, has left
\* num_actions at one and has returned done.
C27_Witness ==
    /\ env.pc = "running" /\ env.stepped
    /\ ~env.running /\ env.done
    /\ env.sent = 0
    /\ env.num_actions = 1 /\ env.taken = 1

====
